---- MODULE Spec2Model ----
(***************************************************************************)
(* The media importer of photography/importer.py.                          *)
(*                                                                         *)
(* File names are tuples of one-character strings, so that the string      *)
(* operations of the importer (startswith, lstrip, split, rpartition,      *)
(* suffix, stem, isdigit, the case-insensitive glob and strptime) are      *)
(* computed character by character as the code computes them.              *)
(*                                                                         *)
(* Two importers are followed side by side, each on its own copy of the    *)
(* same initial filesystem: "real" (move = Path.rename) and "dry" (the     *)
(* importer built by Importer.dry_run, move = no-op).  Both visit the      *)
(* entries of the staging directory in the same order.                     *)
(***************************************************************************)
EXTENDS Integers, Sequences, FiniteSets, TLC

VARIABLES
    batch,      \* regular files put in the staging directory for this run
    subdirs,    \* directories inside the staging directory
    todo,       \* entries of new_media.iterdir() not yet visited
    mtime,      \* st_mtime of the staged files whose mtime is varied
    racy,       \* files that vanish between is_file() and stat()
    staging,    \* per importer: regular files now in the staging directory
    files,      \* per importer: files under the library and quarantine roots
    dirs,       \* per importer: directories under the two roots
    journal,    \* per importer: Mover._journal
    status,     \* per importer: "running", "done" or the exception raised
    files0,     \* files under the two roots when the run started
    run         \* number of the current ingest run

vars == <<batch, subdirs, todo, mtime, racy, staging, files, dirs, journal,
          status, files0, run>>

Kinds == {"real", "dry"}

(***************************************************************************)
(* Bounds of the model.                                                    *)
(***************************************************************************)
MaxFiles == 4       \* entries in the staging directory of a run
MaxPre == 1         \* files already under the roots before the first run
MaxRefill == 2      \* entries per batch when runs are repeated
MaxRuns == 2        \* successive ingest runs

(***************************************************************************)
(* Strings.                                                                *)
(***************************************************************************)
Digits == {"0", "1", "2", "3", "4", "5", "6", "7", "8", "9"}

DigitVal(c) ==
    CASE c = "0" -> 0 [] c = "1" -> 1 [] c = "2" -> 2 [] c = "3" -> 3
      [] c = "4" -> 4 [] c = "5" -> 5 [] c = "6" -> 6 [] c = "7" -> 7
      [] c = "8" -> 8 [] c = "9" -> 9

DigitChar(n) ==
    CASE n = 0 -> "0" [] n = 1 -> "1" [] n = 2 -> "2" [] n = 3 -> "3"
      [] n = 4 -> "4" [] n = 5 -> "5" [] n = 6 -> "6" [] n = 7 -> "7"
      [] n = 8 -> "8" [] n = 9 -> "9"

\* str.isdigit(): non-empty and every character a digit
IsDigit(s) == s # <<>> /\ \A i \in 1..Len(s) : s[i] \in Digits

RECURSIVE IntOf(_)
IntOf(s) == IF s = <<>> THEN 0
            ELSE 10 * IntOf(SubSeq(s, 1, Len(s) - 1)) + DigitVal(s[Len(s)])

\* str.lower() of one character, for the letters file names are made of
Lower(c) ==
    CASE c = "D" -> "d" [] c = "N" -> "n" [] c = "G" -> "g" [] c = "J" -> "j"
      [] c = "P" -> "p" [] c = "S" -> "s" [] OTHER -> c

LowerStr(s) == [i \in 1..Len(s) |-> Lower(s[i])]

StartsWith(s, p) == Len(s) >= Len(p) /\ SubSeq(s, 1, Len(p)) = p

\* str.lstrip(c): every leading c is removed
RECURSIVE LStrip(_, _)
LStrip(s, c) == IF s # <<>> /\ s[1] = c THEN LStrip(Tail(s), c) ELSE s

\* str.find / str.rfind, 1-based, 0 when absent
Find(s, c) ==
    LET at == {i \in 1..Len(s) : s[i] = c}
    IN  IF at = {} THEN 0 ELSE CHOOSE i \in at : \A j \in at : i <= j

RFind(s, c) ==
    LET at == {i \in 1..Len(s) : s[i] = c}
    IN  IF at = {} THEN 0 ELSE CHOOSE i \in at : \A j \in at : i >= j

\* str.split(c)
RECURSIVE Split(_, _)
Split(s, c) ==
    LET i == Find(s, c)
    IN  IF i = 0 THEN <<s>>
        ELSE <<SubSeq(s, 1, i - 1)>> \o Split(SubSeq(s, i + 1, Len(s)), c)

\* str.rpartition(c): <<head, sep, tail>>
RPartition(s, c) ==
    LET i == RFind(s, c)
    IN  IF i = 0 THEN << <<>>, <<>>, s >>
        ELSE << SubSeq(s, 1, i - 1), <<c>>, SubSeq(s, i + 1, Len(s)) >>

\* PurePath.suffix and PurePath.stem
Suffix(name) ==
    LET i == RFind(name, ".")
    IN  IF 1 < i /\ i < Len(name) THEN SubSeq(name, i, Len(name)) ELSE <<>>

Stem(name) ==
    LET i == RFind(name, ".")
    IN  IF 1 < i /\ i < Len(name) THEN SubSeq(name, 1, i - 1) ELSE name

\* one path component against a glob pattern, case_sensitive=False:
\* pat from position i against s from position j
RECURSIVE MatchAt(_, _, _, _)
MatchAt(pat, s, i, j) ==
    IF i > Len(pat) THEN j > Len(s)
    ELSE IF pat[i] = "*"
         THEN MatchAt(pat, s, i + 1, j) \/ (j <= Len(s) /\ MatchAt(pat, s, i, j + 1))
         ELSE /\ j <= Len(s)
              /\ Lower(pat[i]) = Lower(s[j])
              /\ MatchAt(pat, s, i + 1, j + 1)

\* fnmatch of one path component; the two shapes the importer builds (no
\* wildcard, one trailing wildcard) are decided without recursion
Match(pat, s) ==
    LET stars == {i \in 1..Len(pat) : pat[i] = "*"}
    IN  IF stars = {}
        THEN Len(s) = Len(pat) /\ \A i \in 1..Len(pat) : Lower(pat[i]) = Lower(s[i])
        ELSE IF stars = {Len(pat)}
        THEN /\ Len(s) >= Len(pat) - 1
             /\ \A i \in 1..(Len(pat) - 1) : Lower(pat[i]) = Lower(s[i])
        ELSE MatchAt(pat, s, 1, 1)

(***************************************************************************)
(* Dates.                                                                  *)
(***************************************************************************)
IsLeap(y) == (y % 4 = 0 /\ y % 100 # 0) \/ y % 400 = 0

DaysInMonth(y, m) ==
    IF m = 2 THEN (IF IsLeap(y) THEN 29 ELSE 28)
    ELSE IF m \in {4, 6, 9, 11} THEN 30 ELSE 31

\* the lengths the regex group of %m can take at the head of r, in the
\* order of its alternatives: 1[0-2] | 0[1-9] | [1-9]
MonthLens(r) ==
    (IF /\ Len(r) >= 2
        /\ \/ (r[1] = "1" /\ r[2] \in {"0", "1", "2"})
           \/ (r[1] = "0" /\ r[2] \in Digits \ {"0"})
     THEN <<2>> ELSE <<>>)
    \o (IF Len(r) >= 1 /\ r[1] \in Digits \ {"0"} THEN <<1>> ELSE <<>>)

\* the same for %d: 3[0-1] | [1-2]\d | 0[1-9] | [1-9]
DayLens(r) ==
    (IF /\ Len(r) >= 2
        /\ \/ (r[1] = "3" /\ r[2] \in {"0", "1"})
           \/ (r[1] \in {"1", "2"} /\ r[2] \in Digits)
           \/ (r[1] = "0" /\ r[2] \in Digits \ {"0"})
     THEN <<2>> ELSE <<>>)
    \o (IF Len(r) >= 1 /\ r[1] \in Digits \ {"0"} THEN <<1>> ELSE <<>>)

NoDate == [ok |-> FALSE, Y |-> 0, m |-> 0, d |-> 0]

\* datetime.strptime(s, "%Y%m%d"): the first match of the format's regex in
\* backtracking order; ValueError (ok = FALSE) when nothing matches, when
\* unconverted data remains, or when the date does not exist.
StrpTime(s) ==
    IF Len(s) < 4 \/ ~IsDigit(SubSeq(s, 1, 4)) THEN NoDate
    ELSE
    LET r  == SubSeq(s, 5, Len(s))
        ms == MonthLens(r)
        \* <<month length, day length>> candidates in backtracking order
        cands == [i \in 1..Len(ms) |->
                     LET ds == DayLens(SubSeq(r, ms[i] + 1, Len(r)))
                     IN  IF ds = <<>> THEN <<>> ELSE <<ms[i], ds[1]>>]
        hits == SelectSeq(cands, LAMBDA c : c # <<>>)
    IN  IF hits = <<>> THEN NoDate
        ELSE LET ml == hits[1][1]
                 dl == hits[1][2]
                 Y  == IntOf(SubSeq(s, 1, 4))
                 m  == IntOf(SubSeq(r, 1, ml))
                 d  == IntOf(SubSeq(r, ml + 1, ml + dl))
             IN  IF 4 + ml + dl # Len(s) THEN NoDate
                 ELSE IF Y < 1 \/ d > DaysInMonth(Y, m) THEN NoDate
                 ELSE [ok |-> TRUE, Y |-> Y, m |-> m, d |-> d]

\* zero-padded decimal of width w
RECURSIVE Pad(_, _)
Pad(n, w) == IF w = 0 THEN <<>>
             ELSE Pad(n \div 10, w - 1) \o <<DigitChar(n % 10)>>

\* f"{dt:%Y/%m/%d}"
FormatYmd(dt) == Pad(dt.Y, 4) \o <<"/">> \o Pad(dt.m, 2) \o <<"/">> \o Pad(dt.d, 2)

\* Timestamps count half days from 2024-01-01T00:00Z.
TicksPerDay == 2

\* datetime.fromtimestamp(t, tz=UTC), for timestamps within January 2024
FromTimestamp(t) == [ok |-> TRUE, Y |-> 2024, m |-> 1, d |-> 1 + (t \div TicksPerDay)]

\* Importer._newest_trusted_mtime
NewestTrustedMtime == 3

(***************************************************************************)
(* Paths under the two roots.                                              *)
(***************************************************************************)
TrashDir == <<"t", "r", "a", "s", "h">>
ConfirmTrashDir == <<"c", "o", "n", "f", "i", "r", "m", "/", "t", "r", "a", "s", "h">>

At(root, dir, name) == [root |-> root, dir |-> dir, name |-> name]

\* Importer.trash / name, Importer.confirm_trash / name
InTrash(name) == At("quarantine", TrashDir, name)
InConfirmTrash(name) == At("quarantine", ConfirmTrashDir, name)

Dir(root, dir) == [root |-> root, dir |-> dir]

\* mkdir(parents=True, exist_ok=True): the directory and its ancestors
MkdirParents(root, dir) ==
    {Dir(root, dir)} \cup
    {Dir(root, SubSeq(dir, 1, i - 1)) : i \in {j \in 1..Len(dir) : dir[j] = "/"}}

\* names of the entries directly inside a directory: its files and its
\* subdirectories
Entries(fls, drs, root, dir) ==
    LET pre == IF dir = <<>> THEN <<>> ELSE dir \o <<"/">>
    IN  {f.name : f \in {g \in fls : g.root = root /\ g.dir = dir}}
        \cup {SubSeq(d.dir, Len(pre) + 1, Len(d.dir)) :
                 d \in {e \in drs : /\ e.root = root
                                    /\ Len(e.dir) > Len(pre)
                                    /\ StartsWith(e.dir, pre)
                                    /\ Find(SubSeq(e.dir, Len(pre) + 1, Len(e.dir)), "/") = 0}}

\* Path.glob(pattern, case_sensitive=False) on a directory, as entry names
Glob(entries, pat) == {e \in entries : Match(pat, e)}

\* Variants of _library_destination_for with a slip, used to show that the
\* properties below depend on it: the mtime cutoff applied before the
\* filename date is looked at, and a cutoff that rejects an mtime equal to it.
LibraryDestinationForMtimeFirst(stg, name, mt) ==
    LET parts == Split(name, "_")
    IN  IF name \notin stg \/ mt > NewestTrustedMtime
        THEN At("quarantine", <<>>, name)
        ELSE IF Len(parts) < 2 \/ ~IsDigit(parts[2])
        THEN At("library", FormatYmd(FromTimestamp(mt)), name)
        ELSE LET dt == StrpTime(parts[2])
             IN  IF ~dt.ok THEN At("quarantine", <<>>, name)
                 ELSE At("library", FormatYmd(dt), name)

LibraryDestinationForInclusiveCutoff(stg, name, mt) ==
    LET parts == Split(name, "_")
    IN  IF Len(parts) < 2 \/ ~IsDigit(parts[2])
        THEN IF name \notin stg THEN At("quarantine", <<>>, name)
             ELSE IF mt >= NewestTrustedMtime THEN At("quarantine", <<>>, name)
             ELSE At("library", FormatYmd(FromTimestamp(mt)), name)
        ELSE LET dt == StrpTime(parts[2])
             IN  IF ~dt.ok THEN At("quarantine", <<>>, name)
                 ELSE At("library", FormatYmd(dt), name)

(***************************************************************************)
(* Importer._library_destination_for.  stg is the set of regular files in  *)
(* the staging directory when stat() is called, mt the file's st_mtime.    *)
(***************************************************************************)
LibraryDestinationFor(stg, name, mt) ==
    LET parts == Split(name, "_")
    IN  IF Len(parts) < 2 \/ ~IsDigit(parts[2])
        THEN IF name \notin stg THEN At("quarantine", <<>>, name)
             ELSE IF mt > NewestTrustedMtime THEN At("quarantine", <<>>, name)
             ELSE At("library", FormatYmd(FromTimestamp(mt)), name)
        ELSE LET dt == StrpTime(parts[2])
             IN  IF ~dt.ok THEN At("quarantine", <<>>, name)
                 ELSE At("library", FormatYmd(dt), name)

(***************************************************************************)
(* Importer._decide.  stg: regular files in staging, sub: directories in   *)
(* staging, fls and drs: files and directories under the roots.  The       *)
(* result says whether ValueError is raised, the destination returned and  *)
(* the directories made on the way (the cached trash properties and        *)
(* dest.parent.mkdir).                                                     *)
(***************************************************************************)
Raise == [raised |-> TRUE, dest |-> At("none", <<>>, <<>>), mk |-> {}]

Return(dest) == [raised |-> FALSE, dest |-> dest,
                 mk |-> MkdirParents(dest.root, dest.dir)]

DNG == <<".", "d", "n", "g">>

Decide(stg, sub, fls, drs, name, mt) ==
    LET suffix == Suffix(name)
        stem   == Stem(name)
        dest   == LibraryDestinationFor(stg, name, mt)
        inDest == Entries(fls, drs, dest.root, dest.dir)
        raws1  == Cardinality(Glob(stg \cup sub, stem \o DNG))
        raws2  == Cardinality(Glob(inDest, stem \o DNG))
        part   == RPartition(stem, "~")
        globs  == Cardinality(Glob(inDest, part[1] \o <<"*">>))
        Place  == Return(dest)
        Tilde  == IF IsDigit(part[3])
                  THEN IF (part[1] \o suffix) \in stg \cup sub
                       THEN Return(InTrash(name))
                       ELSE IF globs = 1 THEN Return(InTrash(name))
                       ELSE IF globs > 1 THEN Raise
                       ELSE Place
                  ELSE Place
    IN  IF StartsWith(name, <<".">>)
        THEN LET rest == LStrip(name, ".")
             IN  IF rest = <<"D", "S", "_", "S", "t", "o", "r", "e">>
                 THEN Return(InTrash(name))
                 ELSE Return(InConfirmTrash(rest))
        ELSE IF LowerStr(suffix) \in {<<".", "j", "p", "g">>, <<".", "j", "p", "e", "g">>}
        THEN IF raws1 = 1 THEN Return(InTrash(name))
             ELSE IF raws1 > 1 THEN Raise
             ELSE IF raws2 = 1 THEN Return(InTrash(name))
             ELSE IF raws2 > 1 THEN Raise
             ELSE Tilde
        ELSE Tilde

\* Path.rename(source, destination): the file now lies at the destination and
\* replaces whatever file lay there
Rename(fls, name, dest) ==
    {f \in fls : ~(f.root = dest.root /\ f.dir = dest.dir /\ f.name = dest.name)}
    \cup {[root |-> dest.root, dir |-> dest.dir, name |-> dest.name, data |-> name]}

(***************************************************************************)
(* The file names the staging directory is filled from.                    *)
(***************************************************************************)
JPG == <<".", "j", "p", "g">>
MP4 == <<".", "m", "p", "4">>

\* PXL-style names: prefix, date segment, sequence number
Pxl(date) == <<"P", "_">> \o date \o <<"_", "1">>

D20240101 == <<"2", "0", "2", "4", "0", "1", "0", "1">>
N1 == Pxl(D20240101)

N1_dng  == N1 \o DNG
N1_DNG  == N1 \o <<".", "D", "N", "G">>
N1_jpg  == N1 \o JPG
N1_2jpg == N1 \o <<"~", "2">> \o JPG
N1_3jpg == N1 \o <<"~", "3">> \o JPG
N1_mp4  == N1 \o MP4

a_dng   == <<"a">> \o DNG
a_jpg   == <<"a">> \o JPG
a_2jpg  == <<"a", "~", "2">> \o JPG
seven   == <<"7">> \o JPG

DS_Store  == <<".", "D", "S", "_", "S", "t", "o", "r", "e">>
DDS_Store == <<".">> \o DS_Store
dot_h     == <<".", "h">>
ddot_h    == <<".", ".", "h">>
subdir    == <<"s">>

Month13 == Pxl(<<"2", "0", "2", "4", "1", "3", "0", "1">>) \o JPG
Feb30   == Pxl(<<"2", "0", "2", "4", "0", "2", "3", "0">>) \o JPG
Seven7  == Pxl(<<"2", "0", "2", "4", "0", "1", "1">>) \o JPG
Nine9   == Pxl(<<"2", "0", "2", "4", "0", "1", "0", "1", "1">>) \o JPG
Jan2    == Pxl(<<"2", "0", "2", "4", "0", "1", "0", "2">>) \o JPG

RawFamily   == {N1_dng, N1_DNG, N1_jpg, N1_2jpg, N1_3jpg, N1_mp4}
MtimeFamily == {a_dng, a_jpg, a_2jpg, seven}
DotFamily   == {DS_Store, DDS_Store, dot_h, ddot_h, N1_jpg, subdir}
DateFamily  == {Month13, Feb30, Seven7, Nine9, Jan2, N1_dng}

Families == {RawFamily, MtimeFamily, DotFamily, DateFamily}

\* what the staging directory is filled from when runs are repeated
RefillFamily == RawFamily \cup {subdir}

SubdirNames == {subdir}

\* the files whose mtime is varied; every other file has DefaultMtime
TimedNames == {a_dng, a_jpg, a_2jpg, Jan2}
MTimes == {1, 3, 4}
DefaultMtime == 1

\* the files that may vanish between is_file() and stat()
RacyNames == {a_jpg}

\* files that may lie under the roots before the first run
Old == <<"o", "l", "d">>
PreUniverse ==
    {[root |-> "library", dir |-> FormatYmd(StrpTime(D20240101)),
      name |-> N1_dng, data |-> Old],
     [root |-> "library", dir |-> FormatYmd(StrpTime(D20240101)),
      name |-> N1_mp4, data |-> Old]}

Bounded(S, n) == {x \in SUBSET S : Cardinality(x) <= n}

Mtime(name) == IF name \in DOMAIN mtime THEN mtime[name] ELSE DefaultMtime

(***************************************************************************)
(* The state after the importers are constructed and the staging directory *)
(* is filled.                                                              *)
(***************************************************************************)
Start(b, pre) ==
    /\ batch = b \ SubdirNames
    /\ subdirs = b \cap SubdirNames
    /\ todo = b
    /\ staging = [k \in Kinds |-> b \ SubdirNames]
    /\ files = [k \in Kinds |-> pre]
    /\ dirs = [k \in Kinds |-> UNION {MkdirParents(f.root, f.dir) : f \in pre}]
    /\ journal = [k \in Kinds |-> <<>>]
    /\ status = [k \in Kinds |-> "running"]
    /\ files0 = pre
    /\ run = 1

Init ==
    \E fam \in Families :
      \E b \in Bounded(fam, MaxFiles) :
        \E pre \in Bounded(PreUniverse, MaxPre) :
          /\ Start(b, pre)
          /\ mtime \in {m \in [TimedNames -> MTimes] :
                           \A n \in TimedNames \ b : m[n] = DefaultMtime}
          /\ racy \in SUBSET (b \cap RacyNames)

(***************************************************************************)
(* One iteration of the loop of Importer.ingest on a regular file, by      *)
(* every importer that is still running.                                   *)
(***************************************************************************)
\* _decide, then Mover.move with move = Path.rename (real) or the no-op of
\* dry_run (dry).  Path.rename raises FileNotFoundError when the source has
\* vanished.
\* A variant of the step that undoes the moves of the run when _decide
\* raises, used to show that the no-rollback property depends on the step.
MovedRollback(k, path, stg, d) ==
    LET made == dirs[k] \cup d.mk
        same == [staging |-> staging[k], files |-> files[k], dirs |-> dirs[k],
                 journal |-> journal[k], status |-> status[k]]
    IN  IF d.raised
        THEN [same EXCEPT !.staging = batch, !.files = files0,
                          !.status = "ValueError"]
        ELSE IF k = "dry"
        THEN [same EXCEPT !.staging = stg, !.dirs = made,
                          !.journal = Append(journal[k], <<path, d.dest>>)]
        ELSE IF path \notin stg
        THEN [same EXCEPT !.staging = stg, !.dirs = made,
                          !.status = "FileNotFoundError"]
        ELSE [same EXCEPT !.staging = stg \ {path}, !.dirs = made,
                          !.files = Rename(files[k], path, d.dest),
                          !.journal = Append(journal[k], <<path, d.dest>>)]

Moved(k, path, stg, d) ==
    LET made == dirs[k] \cup d.mk
        same == [staging |-> staging[k], files |-> files[k], dirs |-> dirs[k],
                 journal |-> journal[k], status |-> status[k]]
    IN  IF d.raised
        THEN [same EXCEPT !.staging = stg, !.status = "ValueError"]
        ELSE IF k = "dry"
        THEN [same EXCEPT !.staging = stg, !.dirs = made,
                          !.journal = Append(journal[k], <<path, d.dest>>)]
        ELSE IF path \notin stg
        THEN [same EXCEPT !.staging = stg, !.dirs = made,
                          !.status = "FileNotFoundError"]
        ELSE [same EXCEPT !.staging = stg \ {path}, !.dirs = made,
                          !.files = Rename(files[k], path, d.dest),
                          !.journal = Append(journal[k], <<path, d.dest>>)]

IngestOne(k, path) ==
    LET stg == staging[k] \ (IF path \in racy THEN {path} ELSE {})
    IN  IF status[k] # "running"
        THEN [staging |-> staging[k], files |-> files[k], dirs |-> dirs[k],
              journal |-> journal[k], status |-> status[k]]
        ELSE Moved(k, path, stg,
                   Decide(stg, subdirs, files[k], dirs[k], path, Mtime(path)))

IngestFile(path) ==
    /\ path \in todo
    /\ path \in batch
    /\ \E k \in Kinds : status[k] = "running"
    /\ todo' = todo \ {path}
    /\ \E both \in {[k \in Kinds |-> IngestOne(k, path)]} :
           /\ staging' = [k \in Kinds |-> both[k].staging]
           /\ files' = [k \in Kinds |-> both[k].files]
           /\ dirs' = [k \in Kinds |-> both[k].dirs]
           /\ journal' = [k \in Kinds |-> both[k].journal]
           /\ status' = [k \in Kinds |-> both[k].status]
    /\ UNCHANGED <<batch, subdirs, mtime, racy, files0, run>>

\* an entry that is not a regular file is skipped
SkipEntry(path) ==
    /\ path \in todo
    /\ path \in subdirs
    /\ \E k \in Kinds : status[k] = "running"
    /\ todo' = todo \ {path}
    /\ UNCHANGED <<batch, subdirs, mtime, racy, staging, files, dirs, journal,
                   status, files0, run>>

\* the loop is over: ingest returns mover.manifest()
ReturnManifest ==
    /\ todo = {}
    /\ \E k \in Kinds : status[k] = "running"
    /\ status' = [k \in Kinds |-> IF status[k] = "running" THEN "done"
                                  ELSE status[k]]
    /\ UNCHANGED <<batch, subdirs, todo, mtime, racy, staging, files, dirs,
                   journal, files0, run>>

Next ==
    \/ \E path \in todo : IngestFile(path)
    \/ \E path \in todo : SkipEntry(path)
    \/ ReturnManifest

Spec == Init /\ [][Next]_vars

(***************************************************************************)
(* Two successive runs: when no ingest call is in progress the staging     *)
(* directory is cleared and refilled, and both importers are called again  *)
(* (a fresh Mover, hence an empty journal), the dry one on a copy of the   *)
(* filesystem the real one has produced so far.                            *)
(***************************************************************************)
Refill ==
    /\ run < MaxRuns
    /\ \A k \in Kinds : status[k] # "running"
    /\ \E b \in Bounded(RefillFamily, MaxRefill) :
         /\ batch' = b \ SubdirNames
         /\ subdirs' = b \cap SubdirNames
         /\ todo' = b
         /\ staging' = [k \in Kinds |-> b \ SubdirNames]
    /\ journal' = [k \in Kinds |-> <<>>]
    /\ status' = [k \in Kinds |-> "running"]
    /\ files' = [k \in Kinds |-> files["real"]]
    /\ dirs' = [k \in Kinds |-> dirs["real"]]
    /\ files0' = files["real"]
    /\ run' = run + 1
    /\ UNCHANGED <<mtime, racy>>

InitTwo ==
    \E b \in Bounded(RefillFamily, MaxRefill) :
      /\ Start(b, {})
      /\ mtime = [n \in TimedNames |-> DefaultMtime]
      /\ racy = {}

NextTwo == Next \/ Refill

SpecTwo == InitTwo /\ [][NextTwo]_vars

(***************************************************************************)
(* Vocabulary of the properties.                                           *)
(***************************************************************************)
Entries_(k) == {journal[k][i] : i \in 1..Len(journal[k])}

IsDotfile(name) == name # <<>> /\ name[1] = "."

IsJpeg(name) == LowerStr(Suffix(name)) \in {JPG, <<".", "j", "p", "e", "g">>}

IsRaw(name) == LowerStr(Suffix(name)) = DNG

\* copy is NAME~k.ext for original NAME.ext
IsNumberedCopyOf(copy, original) ==
    /\ Suffix(copy) = Suffix(original)
    /\ \E i \in 1..Len(Stem(copy)) :
         /\ Stem(copy)[i] = "~"
         /\ SubSeq(Stem(copy), 1, i - 1) = Stem(original)
         /\ IsDigit(SubSeq(Stem(copy), i + 1, Len(Stem(copy))))

\* where the date rules alone put a file that is present in staging
NormalPlacement(name) == LibraryDestinationFor({name}, name, Mtime(name))

\* no file vanishes under the importers' feet and staging holds files only
Quiet == racy = {} /\ subdirs = {}

(***************************************************************************)
(* C1.  A staging directory holding NAME.dng and NAME.jpg: for every       *)
(* visiting order the run completes, the JPEG's manifest destination is    *)
(* <quarantine>/trash/NAME.jpg and the DNG's is its normal placement.      *)
(* Stated for directories holding exactly the two files, nothing under the *)
(* roots beforehand.                                                       *)
(***************************************************************************)
C1_JpegTrashedRawPlaced ==
    \A j \in batch : \A r \in batch :
        ( /\ IsJpeg(j) /\ IsRaw(r) /\ Stem(j) = Stem(r)
          /\ batch = {j, r} /\ files0 = {} /\ Quiet
          /\ status["real"] # "running" )
        => /\ status["real"] = "done"
           /\ <<j, InTrash(j)>> \in Entries_("real")
           /\ <<r, NormalPlacement(r)>> \in Entries_("real")

(***************************************************************************)
(* C2.  Staging holds exactly NAME.jpg, NAME~2.jpg, NAME~3.jpg and         *)
(* NAME.dng, NAME has a valid filename date and the library is empty: for  *)
(* every visiting order the real ingest returns, only the DNG is in the    *)
(* library and the three JPEGs are under <quarantine>/trash.               *)
(***************************************************************************)
C2_OnlyRawInLibrary ==
    \A r \in batch :
        LET name == Stem(r)
            copy(k) == name \o <<"~", k>> \o JPG
            jpegs == {name \o JPG, copy("2"), copy("3")}
        IN  ( /\ IsRaw(r)
              /\ batch = {r} \cup jpegs
              /\ NormalPlacement(r).root = "library"
              /\ files0 = {} /\ Quiet
              /\ status["real"] # "running" )
            => /\ status["real"] = "done"
               /\ {f.name : f \in {g \in files["real"] : g.root = "library"}} = {r}
               /\ {f.name : f \in {g \in files["real"] : g.root = "quarantine"
                                                         /\ g.dir = TrashDir}} = jpegs

(***************************************************************************)
(* C3.  Staging holds NAME.ext and NAME~k.ext and there is no RAW          *)
(* companion: for every visiting order NAME~k.ext is moved to              *)
(* <quarantine>/trash/NAME~k.ext and NAME.ext is placed by the date rules. *)
(***************************************************************************)
C3_NumberedCopyTrashed ==
    \A o \in batch : \A c \in batch :
        ( /\ IsNumberedCopyOf(c, o)
          /\ batch = {o, c} /\ files0 = {} /\ Quiet
          /\ status["real"] # "running" )
        => /\ status["real"] = "done"
           /\ <<c, InTrash(c)>> \in Entries_("real")
           /\ <<o, NormalPlacement(o)>> \in Entries_("real")
           /\ \E f \in files["real"] :
                  f.root = "quarantine" /\ f.dir = TrashDir /\ f.name = c

(***************************************************************************)
(* C4.  The dry-run importer returns the same manifest as the real         *)
(* importer started from the same filesystem and visiting the entries in   *)
(* the same order, and the real run raises only if the dry run raises.     *)
(***************************************************************************)
C4_DryRunSameManifest ==
    ( /\ racy = {}
      /\ \A k \in Kinds : status[k] # "running" )
    => /\ status["real"] = "done" => ( /\ status["dry"] = "done"
                                       /\ journal["dry"] = journal["real"] )
       /\ status["real"] # "done" => status["dry"] # "done"

(***************************************************************************)
(* Dates as the properties speak of them, read off the characters of the   *)
(* name without the importer's parser.                                     *)
(***************************************************************************)
\* the second underscore-separated segment, <<>> when there is none
SecondSegment(name) ==
    LET us == {i \in 1..Len(name) : name[i] = "_"}
        a  == CHOOSE i \in us : \A j \in us : i <= j
        after == {i \in us : i > a}
        b  == IF after = {} THEN Len(name) + 1
              ELSE CHOOSE i \in after : \A j \in after : i <= j
    IN  IF us = {} THEN <<>> ELSE SubSeq(name, a + 1, b - 1)

HasSecondSegment(name) == \E i \in 1..Len(name) : name[i] = "_"

TwoDigits(s, i) == 10 * DigitVal(s[i]) + DigitVal(s[i + 1])

\* exactly eight digits YYYYMMDD naming a day of the calendar
ValidYmd8(seg) ==
    /\ Len(seg) = 8
    /\ \A i \in 1..8 : seg[i] \in Digits
    /\ LET y == 100 * TwoDigits(seg, 1) + TwoDigits(seg, 3)
           m == TwoDigits(seg, 5)
           d == TwoDigits(seg, 7)
       IN  /\ y >= 1
           /\ m \in 1..12
           /\ d >= 1
           /\ d <= (IF m = 2 THEN (IF y % 4 = 0 /\ (y % 100 # 0 \/ y % 400 = 0)
                                   THEN 29 ELSE 28)
                    ELSE IF m \in {4, 6, 9, 11} THEN 30 ELSE 31)

\* YYYY/MM/DD cut out of an eight-digit segment
YmdDir(seg) == SubSeq(seg, 1, 4) \o <<"/">> \o SubSeq(seg, 5, 6) \o <<"/">>
               \o SubSeq(seg, 7, 8)

\* the UTC date of a timestamp as a directory, for the timestamps in MTimes
MtimeDir(t) ==
    CASE t \div TicksPerDay = 0 -> <<"2", "0", "2", "4", "/", "0", "1", "/", "0", "1">>
      [] t \div TicksPerDay = 1 -> <<"2", "0", "2", "4", "/", "0", "1", "/", "0", "2">>
      [] t \div TicksPerDay = 2 -> <<"2", "0", "2", "4", "/", "0", "1", "/", "0", "3">>

\* the manifest entries of either importer
AllEntries == Entries_("real") \cup Entries_("dry")

(***************************************************************************)
(* C5.  A file that is not a dotfile, is not trashed by the duplicate      *)
(* rules and whose second underscore-separated segment is a valid YYYYMMDD *)
(* date gets the destination <library>/YYYY/MM/DD/<name> of that segment,  *)
(* whatever its mtime.                                                     *)
(***************************************************************************)
C5_FilenameDatePlaced ==
    \A e \in AllEntries :
        ( /\ ~IsDotfile(e[1])
          /\ e[2] # InTrash(e[1])
          /\ ValidYmd8(SecondSegment(e[1])) )
        => e[2] = At("library", YmdDir(SecondSegment(e[1])), e[1])

\* a file with a filename date of 2024-01-02 and an mtime newer than the
\* trust cutoff has been placed
C5_Witness ==
    /\ Mtime(Jan2) > NewestTrustedMtime
    /\ \E e \in Entries_("real") : e[1] = Jan2 /\ e[2].root = "library"

(***************************************************************************)
(* C6.  A staged dotfile: .DS_Store goes to <quarantine>/trash/.DS_Store;  *)
(* any other name '.' X goes to <quarantine>/confirm/trash/X, exactly one  *)
(* leading dot removed.                                                    *)
(***************************************************************************)
C6_OneLeadingDotRemoved ==
    \A e \in AllEntries :
        IsDotfile(e[1])
        => IF e[1] = DS_Store THEN e[2] = InTrash(DS_Store)
           ELSE e[2] = InConfirmTrash(Tail(e[1]))

(***************************************************************************)
(* C7.  A file that is not a dotfile, is not a duplicate and has no        *)
(* filename date (no second segment, or one that is not all digits) goes   *)
(* to <quarantine>/<name> when its mtime is strictly newer than the trust  *)
(* cutoff or it cannot be stat'ed, and otherwise to                        *)
(* <library>/YYYY/MM/DD/<name> of the UTC date of its mtime.               *)
(***************************************************************************)
NoFilenameDate(name) ==
    \/ ~HasSecondSegment(name)
    \/ SecondSegment(name) = <<>>
    \/ \E i \in 1..Len(SecondSegment(name)) : SecondSegment(name)[i] \notin Digits

C8_InvalidDateQuarantined ==
    \A e \in AllEntries :
        ( /\ ~IsDotfile(e[1])
          /\ e[2] # InTrash(e[1])
          /\ IsDigit(SecondSegment(e[1]))
          /\ ~ValidYmd8(SecondSegment(e[1])) )
        => e[2] = At("quarantine", <<>>, e[1])

(***************************************************************************)
(* C9.  Two successive runs: the first run placed NAME.dng in the library  *)
(* and the staging directory of the second run holds numbered JPEG copies  *)
(* NAME~k.jpg whose library destination directory is the one holding       *)
(* NAME.dng, and no NAME.jpg.  Then every such copy is moved to            *)
(* <quarantine>/trash, and the RAW file in the library is left as it was.  *)
(***************************************************************************)
C9_LateCopyTrashed ==
    ( run = 2 /\ status["real"] # "running" )
    => \A c \in batch : \A r \in files0 :
          ( /\ IsJpeg(c)
            /\ IsRaw(r.name)
            /\ IsNumberedCopyOf(c, Stem(r.name) \o Suffix(c))
            /\ r.root = "library"
            /\ NormalPlacement(c).root = "library"
            /\ NormalPlacement(c).dir = r.dir
            /\ (Stem(r.name) \o JPG) \notin batch )
          => /\ status["real"] = "done"
             /\ <<c, InTrash(c)>> \in Entries_("real")
             /\ \E f \in files["real"] :
                    f.root = "quarantine" /\ f.dir = TrashDir /\ f.name = c
             /\ r \in files["real"]

(***************************************************************************)
(* C10.  When deciding a file finds more than one RAW companion (in        *)
(* staging or in its library destination directory) or more than one       *)
(* numbered-original candidate in its library destination directory,       *)
(* ingest fails with an error; the faulting file and every file not yet    *)
(* visited stay in staging, and every file moved earlier stays at its      *)
(* destination.                                                            *)
(***************************************************************************)
\* entries of a directory that are RAW companions of a file
RawCompanions(entries, name) ==
    {e \in entries : LowerStr(e) = LowerStr(Stem(name) \o DNG)}

\* entries of a directory that start with the original stem of a numbered copy
OriginalCandidates(entries, name) ==
    {e \in entries :
        \E i \in 1..Len(Stem(name)) :
            /\ Stem(name)[i] = "~"
            /\ \A j \in (i + 1)..Len(Stem(name)) : Stem(name)[j] \in Digits
            /\ i < Len(Stem(name))
            /\ Len(e) >= i - 1
            /\ LowerStr(SubSeq(e, 1, i - 1)) = LowerStr(SubSeq(Stem(name), 1, i - 1))}

\* what importer k finds when it decides name in the current state
FindsMultiple(k, name) ==
    LET here  == staging[k] \cup subdirs
        dest  == NormalPlacement(name)
        there == Entries(files[k], dirs[k], dest.root, dest.dir)
        raws1 == Cardinality(RawCompanions(here, name))
        raws2 == Cardinality(RawCompanions(there, name))
        original == {e \in here : IsNumberedCopyOf(name, e)}
    IN  /\ ~IsDotfile(name)
        /\ \/ IsJpeg(name) /\ raws1 > 1
           \/ IsJpeg(name) /\ raws1 = 0 /\ raws2 > 1
           \/ /\ IsJpeg(name) => (raws1 = 0 /\ raws2 = 0)
              /\ original = {}
              /\ Cardinality(OriginalCandidates(there, name)) > 1

C10_Step(k) ==
    \A path \in (todo \ todo') \cap batch :
        ( status[k] = "running" /\ racy = {} )
        => /\ FindsMultiple(k, path) => status'[k] = "ValueError"
           /\ status'[k] = "ValueError"
              => /\ path \in staging'[k]
                 /\ (todo' \cap batch) \subseteq staging'[k]
                 /\ files'[k] = files[k]
                 /\ journal'[k] = journal[k]
                 /\ k = "real" =>
                      \A i \in 1..Len(journal[k]) :
                          \E f \in files'[k] :
                              /\ f.root = journal[k][i][2].root
                              /\ f.dir = journal[k][i][2].dir
                              /\ f.name = journal[k][i][2].name

\* an importer that has failed stays failed: it returns no manifest and
\* touches nothing any more
C10_Failed(k) ==
    status[k] = "ValueError"
    => /\ status'[k] = "ValueError"
       /\ files'[k] = files[k]
       /\ staging'[k] = staging[k]

C10_FailsWithoutRollback ==
    [][\A k \in Kinds : C10_Step(k) /\ C10_Failed(k)]_vars

\* the real importer has failed after moving a file, with a file still
\* unvisited
C10_Witness ==
    /\ batch \subseteq RawFamily
    /\ status["real"] = "ValueError"
    /\ Len(journal["real"]) >= 1
    /\ Cardinality(staging["real"]) >= 2
    /\ racy = {}

(***************************************************************************)
(* C11.  A dry-run ingest leaves the filesystem as it found it: no staged  *)
(* file is moved or removed and no file or directory is created under the  *)
(* library or quarantine roots.                                            *)
(***************************************************************************)
\* directories below the two roots
Below(drs) == {d \in drs : d.dir # <<>>}

\* the directories below the roots when the first run started
Dirs0 == UNION {MkdirParents(f.root, f.dir) : f \in files0}

C11_DryRunFilesUntouched ==
    /\ files["dry"] = files0
    /\ racy = {} => staging["dry"] = batch

C11_DryRunLeavesFilesystem ==
    run = 1 =>
        /\ C11_DryRunFilesUntouched
        /\ Below(dirs["dry"]) \subseteq Below(Dirs0)

(***************************************************************************)
(* C12.  Within one ingest run no two distinct staged files are assigned   *)
(* the same destination: the destinations in the manifest are pairwise     *)
(* distinct, so no move of the run overwrites a file that an earlier move  *)
(* of the same run put in place.                                           *)
(***************************************************************************)
\* the file an earlier move of the run put at a destination is still there
StillInPlace(k, i) ==
    \E f \in files[k] :
        /\ f.root = journal[k][i][2].root
        /\ f.dir = journal[k][i][2].dir
        /\ f.name = journal[k][i][2].name
        /\ f.data = journal[k][i][1]

C12_DestinationsDistinct ==
    /\ \A k \in Kinds :
         \A i \in 1..Len(journal[k]) : \A j \in 1..Len(journal[k]) :
             i # j => journal[k][i][2] # journal[k][j][2]
    /\ \A i \in 1..Len(journal["real"]) : StillInPlace("real", i)

====
